---- MODULE Spec2Model ----
(***************************************************************************)
(* A model of mcp-ragdocs: the embedding providers and their factory, the  *)
(* ApiClient's collection lifecycle (initCollection and its helpers, with  *)
(* the centralized Qdrant error handler), the add_documentation and        *)
(* list_sources handlers, the local-path guard and the chunker.            *)
(***************************************************************************)
EXTENDS Integers, Sequences, FiniteSets, TLC

VARIABLES env, client, service, netIssued, coll, calls, emb, cwd, tools,
          chunker, docs, browser, queue, catalog

cfgVars == <<env, client, service>>
auxVars == <<emb, cwd, tools, chunker, docs, browser, queue, catalog>>
vars ==
  <<env, client, service, netIssued, coll, calls, emb, cwd, tools, chunker,
    docs, browser, queue, catalog>>

(***************************************************************************)
(* Strings.  A model name is a sequence of segments; String.includes is    *)
(* decided segment-wise, so a name may contain a known model name as a     *)
(* proper part ("text-" + "embedding-001").  Undefined is an unset         *)
(* environment variable, NoModel an unset EMBEDDING_MODEL.                 *)
(***************************************************************************)
Undefined == "undefined"

NoModel == <<Undefined>>

Includes(str, sub) == \E i \in 1..Len(str) : str[i] = sub

ModelNames ==
  { <<"nomic-embed-text">>,
    <<"text-embedding-3-small">>,
    <<"text-embedding-3-large">>,
    <<"text-embedding-", "ada-002">>,
    <<"text-", "embedding-001">>,
    <<"mxbai-embed-large">>,
    <<>> }

(***************************************************************************)
(* The embedding providers.                                                *)
(***************************************************************************)
NoService == [kind |-> "none", model |-> <<>>]

OllamaProvider(model) ==
  [kind |-> "ollama",
   model |-> IF model = NoModel THEN <<"nomic-embed-text">> ELSE model]

OpenAIProvider(model) ==
  [kind |-> "openai",
   model |-> IF model = NoModel THEN <<"text-embedding-3-small">> ELSE model]

GoogleGenAIProvider(model) ==
  [kind |-> "google",
   model |-> IF model = NoModel THEN <<"embedding-001">> ELSE model]

OllamaVectorSize(model) ==
  IF Includes(model, "nomic-embed-text") THEN 768 ELSE 768

OpenAIVectorSize(model) ==
  IF Includes(model, "text-embedding-3-small") \/ Includes(model, "ada-002")
  THEN 1536
  ELSE IF Includes(model, "text-embedding-3-large") THEN 3072 ELSE 1536

GoogleVectorSize(model) ==
  IF Includes(model, "embedding-001") THEN 768 ELSE 768

getVectorSize(p) ==
  CASE p.kind = "ollama" -> OllamaVectorSize(p.model)
    [] p.kind = "openai" -> OpenAIVectorSize(p.model)
    [] p.kind = "google" -> GoogleVectorSize(p.model)

(***************************************************************************)
(* EmbeddingService.createFromConfig and the ApiClient constructor.  A key *)
(* is Undefined, the empty string or a value; the first two are falsy.     *)
(***************************************************************************)
Keys == {Undefined, "", "key"}

Falsy_OnlyUndefined(k) == k = Undefined

Falsy(k) == k = Undefined \/ k = ""

Providers == {"ollama", "openai", "google", "cohere"}

createFromConfig(config) ==
  CASE config.provider = "ollama" ->
         [ok |-> TRUE, service |-> OllamaProvider(config.model)]
    [] config.provider = "openai" ->
         IF Falsy(config.openaiApiKey)
         THEN [ok |-> FALSE, service |-> NoService]
         ELSE [ok |-> TRUE, service |-> OpenAIProvider(config.model)]
    [] config.provider = "google" ->
         IF Falsy(config.geminiApiKey)
         THEN [ok |-> FALSE, service |-> NoService]
         ELSE [ok |-> TRUE, service |-> GoogleGenAIProvider(config.model)]
    [] OTHER -> [ok |-> FALSE, service |-> NoService]

(***************************************************************************)
(* Errors.  An error value keeps what the handlers look at: whether it is  *)
(* an Error instance, the McpError code, which of the handler's message    *)
(* templates it was built from and for which context, the substrings of    *)
(* the handler's tests that its message contains, and whether the message  *)
(* contains the configured endpoint (QDRANT_URL).                          *)
(***************************************************************************)
NoErr ==
  [isError |-> FALSE, code |-> "none", head |-> "none", ctx |-> "none",
   tokens |-> {}, url |-> FALSE]

RawError(tokens) ==
  [isError |-> TRUE, code |-> "none", head |-> "raw", ctx |-> "none",
   tokens |-> tokens, url |-> FALSE]

RawNonError ==
  [isError |-> FALSE, code |-> "none", head |-> "raw", ctx |-> "none",
   tokens |-> {}, url |-> FALSE]

McpError(code, head, ctx, tokens, url) ==
  [isError |-> TRUE, code |-> code, head |-> head, ctx |-> ctx,
   tokens |-> tokens, url |-> url]

ContextIncludesVerify(context) == context = "initialize/verify"

\* The result is either a normal return (thrown = FALSE) or the McpError
\* thrown.  The connectivity and authentication templates drop the inner
\* message; the other two embed it.
handleQdrantError(error, context) ==
  IF error.isError
  THEN IF "Not found" \in error.tokens /\ ContextIncludesVerify(context)
       THEN [thrown |-> FALSE, err |-> NoErr]
       ELSE IF "already exists" \in error.tokens /\ context = "create"
       THEN [thrown |-> FALSE, err |-> NoErr]
       ELSE IF "timed out" \in error.tokens \/ "ECONNREFUSED" \in error.tokens
       THEN [thrown |-> TRUE,
             err |-> McpError("InternalError", "connection", context, {}, TRUE)]
       ELSE IF "Unauthorized" \in error.tokens \/ "Forbidden" \in error.tokens
       THEN [thrown |-> TRUE,
             err |-> McpError("InvalidRequest", "authentication", context, {}, FALSE)]
       ELSE [thrown |-> TRUE,
             err |-> McpError("InternalError", "generic", context,
                              error.tokens, error.url)]
  ELSE [thrown |-> TRUE,
        err |-> McpError("InternalError", "unknown", context,
                         error.tokens, error.url)]

\* An error thrown inside nested try blocks, given the catch contexts from
\* the innermost outwards: each catch hands it to handleQdrantError, which
\* either returns (the function returns normally) or throws a new error to
\* the next catch.
RECURSIVE Propagate(_, _)
Propagate(error, contexts) ==
  IF contexts = <<>>
  THEN [thrown |-> TRUE, err |-> error]
  ELSE LET r == handleQdrantError(error, Head(contexts))
       IN IF r.thrown THEN Propagate(r.err, Tail(contexts)) ELSE r

\* The try blocks around each store request of initCollection.
InitCatch == <<"initialize/verify">>
RecreateCatch == <<"recreate", "initialize/verify">>
CreateCatch(via) ==
  IF via = "recreate"
  THEN <<"create", "recreate", "initialize/verify">>
  ELSE <<"create", "initialize/verify">>

(***************************************************************************)
(* The vector store: one collection name ("documentation"), which is       *)
(* absent or present with a configured vector size (0: the size cannot be  *)
(* read), a number of points and the points themselves: pts maps each      *)
(* point identifier to the point's payload.  Of a payload the model keeps  *)
(* which of the fields url and title it has, the url (a source string),    *)
(* the title (a text) and the position of the chunk in its document (it    *)
(* stands for the chunk's text).  A request may fail for reasons outside   *)
(* the program: TransientFaults.                                           *)
(***************************************************************************)
MaxPoints == 2

Payload(fields, url, title, chunk) ==
  [fields |-> fields, url |-> url, title |-> title, chunk |-> chunk]

DocumentChunk(url, title, chunk) ==
  Payload({"url", "title"}, url, title, chunk)

NoPoints == [id \in {} |-> 0]

\* The source string 'a', a local file, as add_documentation takes it.
StoredSource ==
  [type |-> "string", scheme |-> "", rest |-> <<"a">>, url |-> "none"]

\* A store that holds n points of an earlier ingestion of StoredSource.
StoredPoints(n) ==
  [id \in 1..n |-> DocumentChunk(StoredSource, <<"a">>, id)]

Absent == [exists |-> FALSE, size |-> 0, points |-> 0, pts |-> NoPoints]

Present(size, points) ==
  [exists |-> TRUE, size |-> size, points |-> points,
   pts |-> StoredPoints(points)]

\* The store's upsert: each new point replaces the point of its identifier,
\* if there is one, and is added otherwise.
Upsert(collection, points) ==
  LET pts == [id \in DOMAIN collection.pts \cup DOMAIN points |->
                IF id \in DOMAIN points THEN points[id]
                ELSE collection.pts[id]]
  IN [collection EXCEPT !.pts = pts, !.points = Cardinality(DOMAIN pts)]

StoredSizes == {0, 768, 1536, 3072}

StoreStates ==
  {Absent} \cup {Present(s, n) : s \in StoredSizes, n \in 0..MaxPoints}

TransientFaults ==
  { RawError({"timed out"}), RawError({"ECONNREFUSED"}),
    RawError({"ETIMEDOUT"}),
    RawError({"Unauthorized"}), RawError({"Forbidden"}),
    RawError({"unauthorized"}),
    RawError({}), RawNonError }

NotFoundError == RawError({"Not found"})
AlreadyExistsError == RawError({"already exists"})

(***************************************************************************)
(* generateEmbeddings.  The embedding backend answers a request with a     *)
(* vector of some length, with a response that lacks the vector, or not    *)
(* at all.  A result is the vector's length, or the McpError thrown.       *)
(***************************************************************************)
VectorLengths == {0, 768, 1024, 1536, 3072}

BackendResponses ==
  {[kind |-> "vector", len |-> n] : n \in VectorLengths}
    \cup {[kind |-> "malformed", len |-> 0], [kind |-> "failure", len |-> 0]}

NoEmbedding == [state |-> "none", len |-> 0, code |-> "none"]

EmbeddingReturned(len) == [state |-> "returned", len |-> len, code |-> "none"]

EmbeddingRaised == [state |-> "raised", len |-> 0, code |-> "InternalError"]

\* Each provider returns the backend's vector as it is; a failed request,
\* or a response without a vector, ends in the provider's catch block.
OllamaGenerateEmbeddings(response) ==
  IF response.kind = "vector"
  THEN EmbeddingReturned(response.len)
  ELSE EmbeddingRaised

OpenAIGenerateEmbeddings(response) ==
  IF response.kind = "vector"
  THEN EmbeddingReturned(response.len)
  ELSE EmbeddingRaised

GoogleGenerateEmbeddings(response) ==
  IF response.kind = "failure" THEN EmbeddingRaised
  ELSE IF response.kind = "malformed" THEN EmbeddingRaised
  ELSE EmbeddingReturned(response.len)

ProviderGenerateEmbeddings(p, response) ==
  CASE p.kind = "ollama" -> OllamaGenerateEmbeddings(response)
    [] p.kind = "openai" -> OpenAIGenerateEmbeddings(response)
    [] p.kind = "google" -> GoogleGenerateEmbeddings(response)

\* ApiClient.getEmbeddings: delegates, and rethrows as InternalError.
getEmbeddings(p, response) ==
  LET r == ProviderGenerateEmbeddings(p, response)
  IN IF r.state = "raised" THEN EmbeddingRaised ELSE r

(***************************************************************************)
(* Paths.  A path string is a sequence of characters; path.resolve and     *)
(* path.relative are those of POSIX, working on the segments between '/'.  *)
(***************************************************************************)
RECURSIVE SplitSlash(_, _)
\* str.split('/') without the empty segments; cur is the segment being read.
SplitSlash(str, cur) ==
  IF str = <<>>
  THEN IF cur = <<>> THEN <<>> ELSE <<cur>>
  ELSE IF Head(str) = "/"
       THEN (IF cur = <<>> THEN <<>> ELSE <<cur>>) \o SplitSlash(Tail(str), <<>>)
       ELSE SplitSlash(Tail(str), Append(cur, Head(str)))

RECURSIVE Normalize(_, _)
\* The segments of base followed by segs, with '.' dropped and '..' taking
\* back one segment (none at the root).
Normalize(base, segs) ==
  IF segs = <<>> THEN base
  ELSE LET seg == Head(segs)
       IN IF seg = <<".">> THEN Normalize(base, Tail(segs))
          ELSE IF seg = <<".", ".">>
          THEN Normalize(IF base = <<>> THEN <<>>
                         ELSE SubSeq(base, 1, Len(base) - 1), Tail(segs))
          ELSE Normalize(Append(base, seg), Tail(segs))

IsAbsolute(str) == str # <<>> /\ Head(str) = "/"

\* path.resolve(str) in working directory dir (a sequence of segments).
PathResolve(dir, str) ==
  Normalize(IF IsAbsolute(str) THEN <<>> ELSE dir, SplitSlash(str, <<>>))

RECURSIVE CommonPrefixLen(_, _)
CommonPrefixLen(a, b) ==
  IF a = <<>> \/ b = <<>> \/ Head(a) # Head(b) THEN 0
  ELSE 1 + CommonPrefixLen(Tail(a), Tail(b))

RECURSIVE JoinSlash(_)
JoinSlash(segs) ==
  IF segs = <<>> THEN <<>>
  ELSE IF Len(segs) = 1 THEN Head(segs)
  ELSE Head(segs) \o <<"/">> \o JoinSlash(Tail(segs))

\* path.relative(from, to) of two resolved paths, as a string.
PathRelative(from, to) ==
  LET k == CommonPrefixLen(from, to)
  IN JoinSlash([i \in 1..(Len(from) - k) |-> <<".", ".">>]
                 \o SubSeq(to, k + 1, Len(to)))

StartsWithDotDot_Exactly(str) == str = <<".", ".">>

\* relativePath.startsWith('..')
StartsWithDotDot(str) == Len(str) >= 2 /\ str[1] = "." /\ str[2] = "."

\* The security check of fetchAndProcessUrl: TRUE when access is denied.
PathDenied(dir, str) ==
  LET resolvedPath == PathResolve(dir, str)
      workspaceRoot == PathResolve(dir, <<".">>)
      relativePath == PathRelative(workspaceRoot, resolvedPath)
  IN StartsWithDotDot(relativePath) \/ IsAbsolute(relativePath)

(***************************************************************************)
(* Tool calls.  The argument of add_documentation is missing, not a        *)
(* string, or a string: a URL (scheme http:// or https://, then what the   *)
(* URL is: an HTML page, a .txt resource, or text that new URL() rejects)  *)
(* or anything else (scheme "", the string in rest).                       *)
(***************************************************************************)
MaxSourceLen == 6
MaxChunks == 2
MaxCalls == 2

batchSize == 100
pageSize == 100

PathChars == {".", "/", "a"}

Strings(n) == UNION {[1..k -> PathChars] : k \in 0..n}

StringArg(scheme, rest, url) ==
  [type |-> "string", scheme |-> scheme, rest |-> rest, url |-> url]

NoArgs == [type |-> "missing", scheme |-> "", rest |-> <<>>, url |-> "none"]

NumberArg == [type |-> "number", scheme |-> "", rest |-> <<>>, url |-> "none"]

LocalArgs(n) == {StringArg("", r, "none") : r \in Strings(n)}

UrlArgs ==
  {StringArg(sch, IF u = "malformed" THEN <<>> ELSE <<"a">>, u) :
     sch \in {"http://", "https://"}, u \in {"html", "txt", "malformed"}}

NoResult == [kind |-> "none", code |-> "none"]
Success == [kind |-> "success", code |-> "none"]
FailureResponse == [kind |-> "failure", code |-> "none"]
Thrown(code) == [kind |-> "mcpError", code |-> code]

\* The fields pc, args, chunks, title, i, vecLen and offset are the call's
\* position and locals.  The other fields observe the call: nth numbers the
\* caller's tool calls, before is the number of stored points when the
\* call began, embeds, upserts and scrolls count the requests issued,
\* stored the upserts that succeeded, inflight and returned the embedding
\* requests of the current batch that are outstanding and that returned a
\* vector, opened and closed the browser pages acquired and released, seen
\* the points that the scroll requests returned.  sources is the array of
\* list_sources, and output the lines of its listing.
IdleTool ==
  [pc |-> "idle", kind |-> "none", args |-> NoArgs, nth |-> 0,
   initDone |-> FALSE, fileAccess |-> FALSE, before |-> 0,
   embeds |-> 0, upserts |-> 0, stored |-> 0, scrolls |-> 0,
   chunks |-> 0, title |-> <<>>, i |-> 0, inflight |-> 0, returned |-> 0,
   vecLen |-> 0, rendered |-> FALSE, pageOn |-> 0, opened |-> 0,
   closed |-> 0,
   offset |-> 0, seen |-> 0, sources |-> <<>>, output |-> <<>>,
   result |-> NoResult]

\* The record of a tool call that begins after the caller's call tool.
NewTool(tool, kind, args) ==
  [IdleTool EXCEPT !.kind = kind, !.args = args, !.nth = tool.nth + 1,
                   !.before = coll.points]

Finished(tool, result) == [tool EXCEPT !.pc = "done", !.result = result]

Min(a, b) == IF a < b THEN a ELSE b

\* !args.url || typeof args.url !== 'string'
UrlRequired(args) ==
  args.type # "string" \/ (args.scheme = "" /\ args.rest = <<>>)

IsUrl(args) == args.scheme \in {"http://", "https://"}

\* The catch block around upsert, then the catch block of handle.
UpsertCatch(error) ==
  IF error.isError /\ "unauthorized" \in error.tokens
  THEN Thrown("InvalidRequest")
  ELSE IF error.isError
          /\ ("ECONNREFUSED" \in error.tokens \/ "ETIMEDOUT" \in error.tokens)
  THEN Thrown("InternalError")
  ELSE FailureResponse

\* The catch block of ListSourcesHandler.handle.
ListCatch(error) ==
  IF error.isError /\ "unauthorized" \in error.tokens
  THEN Thrown("InvalidRequest")
  ELSE IF error.isError
          /\ ("ECONNREFUSED" \in error.tokens \/ "ETIMEDOUT" \in error.tokens)
  THEN Thrown("InternalError")
  ELSE FailureResponse

(***************************************************************************)
(* The chunker.  A text is a sequence of characters, of which " " and      *)
(* "\n" are whitespace.  SplitWhitespace is text.split(/\s+/): the pieces  *)
(* between the maximal runs of whitespace, the empty piece before a        *)
(* leading run and after a trailing run included.                          *)
(***************************************************************************)
MaxTextLen == 5
MaxChunkSize == 3

TextChars == {"a", "b", " ", "\n"}

IsWhitespace(ch) == ch \in {" ", "\n"}

Texts(n) == UNION {[1..k -> TextChars] : k \in 0..n}

RECURSIVE SplitWhitespace(_, _, _)
SplitWhitespace(str, cur, inRun) ==
  IF str = <<>> THEN <<cur>>
  ELSE IF IsWhitespace(Head(str))
       THEN IF inRun
            THEN SplitWhitespace(Tail(str), <<>>, TRUE)
            ELSE <<cur>> \o SplitWhitespace(Tail(str), <<>>, TRUE)
       ELSE SplitWhitespace(Tail(str), Append(cur, Head(str)), FALSE)

RECURSIVE JoinSpace(_)
\* words.join(' ')
JoinSpace(words) ==
  IF words = <<>> THEN <<>>
  ELSE IF Len(words) = 1 THEN Head(words)
  ELSE Head(words) \o <<" ">> \o JoinSpace(Tail(words))

FlushTail_Never(chunks, currentChunk) == chunks

\* if (currentChunk.length > 0) chunks.push(currentChunk.join(' '))
FlushTail(chunks, currentChunk) ==
  IF Len(currentChunk) > 0
  THEN Append(chunks, JoinSpace(currentChunk))
  ELSE chunks

RECURSIVE ChunkLoop(_, _, _, _)
\* The for loop of chunkText over the words left, then the final push.
ChunkLoop(words, maxChunkSize, chunks, currentChunk) ==
  IF words = <<>> THEN FlushTail(chunks, currentChunk)
  ELSE LET pushed == Append(currentChunk, Head(words))
           currentLength == Len(JoinSpace(pushed))
       IN IF currentLength >= maxChunkSize
          THEN ChunkLoop(Tail(words), maxChunkSize,
                         Append(chunks, JoinSpace(pushed)), <<>>)
          ELSE ChunkLoop(Tail(words), maxChunkSize, chunks, pushed)

chunkText(text, maxChunkSize) ==
  ChunkLoop(SplitWhitespace(text, <<>>, FALSE), maxChunkSize, <<>>, <<>>)

NoChunking == [pc |-> "none", text |-> <<>>, max |-> 0, chunks |-> <<>>]

(***************************************************************************)
(* The documents behind the sources, and the browser.  docs holds the set  *)
(* of chunk counts that the content of a source may have (chunkText        *)
(* returns at least one chunk) and the set of its possible titles: a       *)
(* page's title text, a download's file name or a URL's last path segment  *)
(* is one of PageTitles, the empty one included.                           *)
(* browser is the ApiClient's browser field (handle, 0 when it is not      *)
(* set), with the browsers launched so far, numbered 1..launched, those    *)
(* of them that are not closed (live) and the open pages of each.          *)
(***************************************************************************)
PageTitles == {<<>>, <<"b">>}

\* The documents that the sources may hold: the numbers of chunks that
\* chunkText makes of their texts, and their titles.
Documents(counts, titles) == [counts |-> counts, titles |-> titles]

NoBrowser == [handle |-> 0, launched |-> 0, live |-> {}, pages |-> <<>>]

NoCatalog == [pc |-> "none", sources |-> <<>>, ok |-> TRUE, output |-> <<>>]

\* The processing queue: the pending entries in insertion order, and of a
\* drain its position (pc, busy while an entry is being ingested), the
\* entries it began with, the entry popped last, and the entries ingested
\* and failed so far.
NoQueue ==
  [pc |-> "idle", pending |-> <<>>, entries |-> <<>>, current |-> NoArgs,
   busy |-> FALSE, processed |-> <<>>, failed |-> <<>>]

\* The source string: a scheme is one symbol of the string.
SourceString(args) ==
  IF args.scheme = "" THEN args.rest ELSE <<args.scheme>> \o args.rest

\* text || source
TextOr(text, source) == IF text = <<>> THEN source ELSE text

\* path.basename of a resolved path
Basename(segs) == IF segs = <<>> THEN <<>> ELSE segs[Len(segs)]

(***************************************************************************)
(* The configurations.  Envs is every environment the process may start    *)
(* with; LifecycleEnvs are configurations with which the ApiClient         *)
(* constructor succeeds, used by the collection lifecycle specifications.  *)
(***************************************************************************)
MakeEnv(provider, model, openaiApiKey, geminiApiKey) ==
  [provider |-> provider, model |-> model,
   openaiApiKey |-> openaiApiKey, geminiApiKey |-> geminiApiKey]

Envs ==
  { MakeEnv(p, m, ok, gk) :
      p \in Providers, m \in ModelNames \cup {NoModel},
      ok \in Keys, gk \in Keys }

LifecycleEnvs ==
  { MakeEnv("ollama", NoModel, Undefined, Undefined),
    MakeEnv("ollama", <<"mxbai-embed-large">>, Undefined, Undefined),
    MakeEnv("openai", NoModel, "key", Undefined),
    MakeEnv("openai", <<"text-embedding-3-large">>, "key", Undefined),
    MakeEnv("google", NoModel, Undefined, "key") }

(***************************************************************************)
(* A call of initCollection by caller c.  The fields pc, via and required  *)
(* are the call's position and locals; outcome and err are how it ended.   *)
(* The other fields observe the call: the delete and create requests it    *)
(* issued, the store error it met and at which request, the store as the   *)
(* call found it, and how the call relates to the caller's previous one    *)
(* (prev: "same" or "changed" configuration after a call that returned     *)
(* normally, "none" otherwise).                                            *)
(***************************************************************************)
NoFault == [step |-> "none", error |-> NoErr]

IdleCall ==
  [pc |-> "idle", via |-> "none", required |-> 0,
   outcome |-> "none", err |-> NoErr,
   nDel |-> 0, nCreate |-> 0, fault |-> NoFault, snap |-> Absent,
   prev |-> "none", prevSize |-> 0, lastOk |-> NoService]

Ended(call, r) ==
  [call EXCEPT !.pc = "done",
               !.outcome = IF r.thrown THEN "raised" ELSE "ok",
               !.err = r.err,
               !.lastOk = IF r.thrown THEN NoService ELSE service]

Failed(call, step, error, contexts) ==
  Ended([call EXCEPT !.fault = [step |-> step, error |-> error]],
        Propagate(error, contexts))

NeedsRecreate_OnlyUnreadable(currentVectorSize, requiredVectorSize) ==
  currentVectorSize = 0

NeedsRecreate_Always(currentVectorSize, requiredVectorSize) ==
  TRUE

\* !currentVectorSize, or currentVectorSize !== requiredVectorSize
NeedsRecreate(currentVectorSize, requiredVectorSize) ==
  currentVectorSize = 0 \/ currentVectorSize # requiredVectorSize

BeginInit(call) ==
  [call EXCEPT !.pc = "getCollections", !.via = "none",
               !.required = getVectorSize(service),
               !.outcome = "none", !.err = NoErr,
               !.nDel = 0, !.nCreate = 0, !.fault = NoFault, !.snap = coll,
               !.prev = IF call.lastOk = NoService THEN "none"
                        ELSE IF call.lastOk = service THEN "same"
                        ELSE "changed",
               !.prevSize = IF call.lastOk = NoService THEN 0
                            ELSE getVectorSize(call.lastOk)]

StartInit(c) ==
  /\ client = "ok"
  /\ tools[c].pc \in {"idle", "done"}
  /\ calls[c].pc \in {"idle", "done"}
  /\ calls' = [calls EXCEPT ![c] = BeginInit(@)]
  /\ UNCHANGED <<cfgVars, netIssued, coll, auxVars>>

GetCollections(c) ==
  /\ calls[c].pc = "getCollections"
  /\ netIssued' = TRUE
  /\ \/ \E f \in TransientFaults :
          calls' = [calls EXCEPT ![c] = Failed(@, "getCollections", f, InitCatch)]
     \/ calls' = [calls EXCEPT ![c].pc =
                    IF coll.exists THEN "getCollection" ELSE "createCollection",
                  ![c].via = IF coll.exists THEN "none" ELSE "direct"]
  /\ UNCHANGED <<cfgVars, coll, auxVars>>

GetCollection(c) ==
  /\ calls[c].pc = "getCollection"
  /\ netIssued' = TRUE
  /\ \/ \E f \in TransientFaults :
          calls' = [calls EXCEPT ![c] = Failed(@, "getCollection", f, InitCatch)]
     \/ /\ ~coll.exists
        /\ calls' = [calls EXCEPT ![c] =
                       Failed(@, "getCollection", NotFoundError, InitCatch)]
     \/ /\ coll.exists
        /\ calls' = [calls EXCEPT ![c] =
                       IF NeedsRecreate(coll.size, @.required)
                       THEN [@ EXCEPT !.pc = "deleteCollection"]
                       ELSE Ended(@, [thrown |-> FALSE, err |-> NoErr])]
  /\ UNCHANGED <<cfgVars, coll, auxVars>>

AfterDelete_NoCreate(call) ==
  Ended(call, [thrown |-> FALSE, err |-> NoErr])

\* After deleteCollection has returned, recreateQdrantCollection calls
\* createQdrantCollection.
AfterDelete(call) ==
  [call EXCEPT !.pc = "createCollection", !.via = "recreate"]

\* recreateQdrantCollection, first request.  A store asked to delete a
\* collection it does not hold either reports success or 'Not found'.
DeleteCollection(c) ==
  /\ calls[c].pc = "deleteCollection"
  /\ netIssued' = TRUE
  /\ LET call == [calls[c] EXCEPT !.nDel = @ + 1]
     IN \/ /\ \E f \in TransientFaults :
                calls' = [calls EXCEPT ![c] =
                            Failed(call, "deleteCollection", f, RecreateCatch)]
           /\ UNCHANGED coll
        \/ /\ ~coll.exists
           /\ calls' = [calls EXCEPT ![c] =
                          Failed(call, "deleteCollection", NotFoundError,
                                 RecreateCatch)]
           /\ UNCHANGED coll
        \/ /\ coll' = Absent
           /\ calls' = [calls EXCEPT ![c] = AfterDelete(call)]
  /\ UNCHANGED <<cfgVars, auxVars>>

\* createQdrantCollection, called by initCollection (via = "direct") or by
\* recreateQdrantCollection (via = "recreate").
CreateCollection(c) ==
  /\ calls[c].pc = "createCollection"
  /\ netIssued' = TRUE
  /\ LET call == [calls[c] EXCEPT !.nCreate = @ + 1]
     IN \/ /\ \E f \in TransientFaults :
                calls' = [calls EXCEPT ![c] =
                            Failed(call, "createCollection", f,
                                   CreateCatch(call.via))]
           /\ UNCHANGED coll
        \/ /\ coll.exists
           /\ calls' = [calls EXCEPT ![c] =
                          Failed(call, "createCollection", AlreadyExistsError,
                                 CreateCatch(call.via))]
           /\ UNCHANGED coll
        \/ /\ ~coll.exists
           /\ coll' = Present(call.required, 0)
           /\ calls' = [calls EXCEPT ![c] =
                          Ended(call, [thrown |-> FALSE, err |-> NoErr])]
  /\ UNCHANGED <<cfgVars, auxVars>>

InitStep(c) ==
  \/ GetCollections(c)
  \/ GetCollection(c)
  \/ DeleteCollection(c)
  \/ CreateCollection(c)

\* The process is started (again) with environment e: the ApiClient
\* constructor runs createFromConfig, and no call is in progress.
Construct(e) ==
  /\ \A c \in DOMAIN calls : calls[c].pc \in {"idle", "done"}
  /\ env' = e
  /\ LET r == createFromConfig(e)
     IN /\ client' = IF r.ok THEN "ok" ELSE "failed"
        /\ service' = r.service
  /\ netIssued' = FALSE
  /\ calls' = [c \in DOMAIN calls |->
                 [calls[c] EXCEPT !.pc = "idle", !.outcome = "none",
                                  !.err = NoErr]]
  /\ UNCHANGED <<coll, auxVars>>

Restart == \E e \in LifecycleEnvs : Construct(e)

(***************************************************************************)
(* Spec: one caller of initCollection at a time, against a store in any    *)
(* initial state, with restarts under the same or another configuration.   *)
(***************************************************************************)
InitWith(callers, envs) ==
  /\ env \in envs
  /\ client = "ok"
  /\ service = createFromConfig(env).service
  /\ netIssued = FALSE
  /\ coll \in StoreStates
  /\ calls = [c \in callers |-> IdleCall]
  /\ emb = NoEmbedding
  /\ cwd = <<>>
  /\ tools = [c \in callers |-> IdleTool]
  /\ chunker = NoChunking
  /\ docs = Documents(1..MaxChunks, PageTitles)
  /\ browser = NoBrowser
  /\ queue = NoQueue
  /\ catalog = NoCatalog

Init == InitWith({1}, LifecycleEnvs)

Next ==
  \/ StartInit(1)
  \/ InitStep(1)
  \/ Restart

Spec == Init /\ [][Next]_vars

Returned(c) == calls[c].pc = "done" /\ calls[c].outcome = "ok"

\* C1: whenever initCollection, run by a single caller, returns without
\* raising, the collection exists in the store and its configured vector
\* size is the active provider's getVectorSize().
C1_ReturnedImpliesDimension ==
  \A c \in DOMAIN calls :
    Returned(c) => coll.exists /\ coll.size = getVectorSize(service)

\* A call has returned normally after replacing a collection of another
\* readable size that held points.
C1_Witness ==
  /\ Returned(1)
  /\ calls[1].snap.exists
  /\ calls[1].snap.size \notin {0, calls[1].required}
  /\ calls[1].snap.points > 0
  /\ calls[1].nDel = 1
  /\ calls[1].nCreate = 1

\* C2 as stated: after the configured model or provider has changed between
\* two calls that return normally, the second call has made exactly one
\* delete and one create, and the collection has the new dimension.
C2_ChangeAlwaysRecreates ==
  \A c \in DOMAIN calls :
    (Returned(c) /\ calls[c].prev = "changed") =>
      /\ calls[c].nDel = 1
      /\ calls[c].nCreate = 1
      /\ coll.exists
      /\ coll.size = calls[c].required

\* C2 as amended: after such a change the second call has made exactly one
\* delete and one create when the new provider's vector size differs from
\* the old one's, and no delete and no create when the two sizes coincide;
\* in both cases the collection has the new provider's dimension.
C2_ChangeRecreatesIffSizeDiffers ==
  \A c \in DOMAIN calls :
    (Returned(c) /\ calls[c].prev = "changed") =>
      /\ calls[c].nDel = (IF calls[c].prevSize # calls[c].required THEN 1 ELSE 0)
      /\ calls[c].nCreate = calls[c].nDel
      /\ coll.exists
      /\ coll.size = calls[c].required

\* The configuration changed to another vector size between two calls that
\* returned normally, and the second replaced the collection.
C2_Witness ==
  /\ Returned(1)
  /\ calls[1].prev = "changed"
  /\ calls[1].prevSize # calls[1].required
  /\ calls[1].snap = Present(calls[1].prevSize, 0)
  /\ calls[1].nDel = 1
  /\ coll = Present(calls[1].required, 0)

\* C3: a call that follows a call which returned normally, under the same
\* provider and model and with no store change in between, issues no
\* deleteCollection and no createCollection, and the collection and its
\* points stay as the call found them.
C3_SecondCallChangesNothing ==
  \A c \in DOMAIN calls :
    calls[c].prev = "same" =>
      /\ calls[c].nDel = 0
      /\ calls[c].nCreate = 0
      /\ coll = calls[c].snap

\* A second call under the same configuration has returned.
C3_Witness ==
  /\ Returned(1)
  /\ calls[1].prev = "same"
  /\ coll.exists
  /\ coll.size = calls[1].required

(***************************************************************************)
(* SpecConcurrent: two tool calls run initCollection on the same           *)
(* collection, their store requests interleaved in any order.              *)
(***************************************************************************)
TwoSizeEnvs ==
  { MakeEnv("ollama", NoModel, Undefined, Undefined),
    MakeEnv("openai", NoModel, "key", Undefined) }

InitConcurrent == InitWith({1, 2}, TwoSizeEnvs)

NextConcurrent ==
  \E c \in {1, 2} :
    \/ StartInit(c)
    \/ InitStep(c)

SpecConcurrent == InitConcurrent /\ [][NextConcurrent]_vars

BenignFault(fault) ==
  \/ fault.step = "getCollection" /\ fault.error = NotFoundError
  \/ fault.step = "createCollection" /\ fault.error = AlreadyExistsError

\* C6: the two benign store errors are absorbed and lead to a usable
\* collection: a call whose getCollection reported 'Not found' raises no
\* error and goes on to create the collection with the required size, and
\* a call whose createCollection reported 'already exists' raises no error.
C6_BenignErrorsAbsorbed ==
  \A c \in DOMAIN calls :
    (calls[c].pc = "done" /\ BenignFault(calls[c].fault)) =>
      /\ calls[c].outcome = "ok"
      /\ calls[c].fault.step = "getCollection" => calls[c].nCreate = 1

\* C7: every store error other than the two benign ones is raised with its
\* classification kept, whichever request failed: Unauthorized or Forbidden
\* reaches the caller as InvalidRequest, a timeout or refused connection as
\* the connectivity error naming the endpoint, and none is swallowed.
C7_ClassificationPreserved ==
  \A c \in DOMAIN calls :
    (calls[c].pc = "done" /\ calls[c].fault.step # "none"
       /\ ~BenignFault(calls[c].fault)) =>
      LET tokens == calls[c].fault.error.tokens
      IN /\ calls[c].outcome = "raised"
         /\ (tokens \cap {"Unauthorized", "Forbidden"} # {}) =>
              calls[c].err.code = "InvalidRequest"
         /\ (tokens \cap {"timed out", "ECONNREFUSED"} # {}) =>
              /\ calls[c].err.code = "InternalError"
              /\ calls[c].err.url

(***************************************************************************)
(* SpecEmbedding: the process starts with any environment, the ApiClient   *)
(* constructor runs, and a constructed client embeds texts.                *)
(***************************************************************************)
InitEmbedding ==
  /\ env \in Envs
  /\ client = "none"
  /\ service = NoService
  /\ netIssued = FALSE
  /\ coll = Absent
  /\ calls = [c \in {1} |-> IdleCall]
  /\ emb = NoEmbedding
  /\ cwd = <<>>
  /\ tools = [c \in {1} |-> IdleTool]
  /\ chunker = NoChunking
  /\ docs = Documents(1..MaxChunks, PageTitles)
  /\ browser = NoBrowser
  /\ queue = NoQueue
  /\ catalog = NoCatalog

Startup ==
  /\ client = "none"
  /\ Construct(env)

GetEmbeddings ==
  /\ client = "ok"
  /\ netIssued' = TRUE
  /\ \E response \in BackendResponses :
       emb' = getEmbeddings(service, response)
  /\ UNCHANGED <<cfgVars, coll, calls, cwd, tools, chunker, docs, browser,
                 queue, catalog>>

NextEmbedding ==
  \/ Startup
  \/ GetEmbeddings

SpecEmbedding == InitEmbedding /\ [][NextEmbedding]_vars

\* C5: every vector that generateEmbeddings returns has the length
\* getVectorSize() of the provider instance; a backend response of another
\* length is raised as an internal error and not returned.
C5_VectorLengthIsVectorSize ==
  emb.state = "returned" => emb.len = getVectorSize(service)

MissingCredentials(e) ==
  \/ e.provider = "openai" /\ e.openaiApiKey \in {Undefined, ""}
  \/ e.provider = "google" /\ e.geminiApiKey \in {Undefined, ""}

\* C8: once construction has run with the openai provider and no OpenAI
\* key, or the google provider and no Gemini key, it has raised, there is
\* no provider instance and no request to the embedding backend or the
\* vector store has been issued; with ollama construction never fails.
C8_MissingCredentialsFailConstruction ==
  client # "none" =>
    /\ MissingCredentials(env) =>
         client = "failed" /\ service = NoService /\ ~netIssued /\ emb = NoEmbedding
    /\ env.provider = "ollama" => client = "ok" /\ service.kind = "ollama"

\* Construction has failed for openai with an empty key, although a Gemini
\* key is set.
C8_Witness ==
  /\ client = "failed"
  /\ env.provider = "openai"
  /\ env.openaiApiKey = ""
  /\ env.geminiApiKey = "key"

(***************************************************************************)
(* AddDocumentationHandler.handle.  One action per awaited step: the       *)
(* argument check, the steps of fetchAndProcessUrl (reading a file or a    *)
(* plain-text URL; for another URL initBrowser, newPage, the rendering and *)
(* page.close), the embedding requests of a batch, each one's return, and  *)
(* the upsert of a batch.  The content fetched is known by the number of   *)
(* chunks chunkText makes of it and by its title.                          *)
(***************************************************************************)
addFrame == <<cfgVars, calls, emb, cwd, chunker, docs, queue, catalog>>

\* handle(args) up to the call of fetchAndProcessUrl.
Started(tool, args) ==
  LET new == NewTool(tool, "add_documentation", args)
  IN IF UrlRequired(args)
     THEN Finished(new, Thrown("InvalidParams"))
     ELSE [new EXCEPT !.pc = "fetch"]

AddStartFrom(c, argset) ==
  /\ client = "ok"
  /\ tools[c].pc \in {"idle", "done"}
  /\ calls[c].pc \in {"idle", "done"}
  /\ tools[c].nth < MaxCalls
  /\ \E args \in argset :
       tools' = [tools EXCEPT ![c] = Started(@, args)]
  /\ UNCHANGED <<addFrame, netIssued, coll, browser>>

ChunkCounts == docs.counts

Titles == docs.titles

\* The common processing of fetchAndProcessUrl: chunkText and the mapping
\* of its chunks to DocumentChunks.
Fetched(tool, n, title) ==
  [tool EXCEPT !.pc = "embed", !.chunks = n, !.title = title, !.i = 0]

\* fetchAndProcessUrl up to its first awaited result.  For a URL that is
\* not plain text this is initBrowser's test of the browser field.
AddFetch(c) ==
  /\ tools[c].pc = "fetch"
  /\ LET tool == tools[c]
         args == tool.args
     IN IF IsUrl(args)
        THEN IF args.url = "malformed"
             THEN tools' = [tools EXCEPT ![c] =
                              Finished(tool, Thrown("InternalError"))]
             ELSE IF args.url = "txt"
             THEN \/ tools' = [tools EXCEPT ![c] =
                                 Finished(tool, Thrown("InternalError"))]
                  \/ \E n \in ChunkCounts, t \in Titles :
                       tools' = [tools EXCEPT ![c] =
                                   Fetched(tool, n, TextOr(t, SourceString(args)))]
             ELSE tools' = [tools EXCEPT ![c].pc =
                              IF browser.handle = 0 THEN "launch" ELSE "newPage"]
        ELSE IF PathDenied(cwd, args.rest)
             THEN tools' = [tools EXCEPT ![c] =
                              Finished(tool, Thrown("InvalidParams"))]
             ELSE LET opened == [tool EXCEPT !.fileAccess = TRUE]
                      title == Basename(PathResolve(cwd, args.rest))
                  IN \/ \E code \in {"InvalidParams", "InternalError"} :
                          tools' = [tools EXCEPT ![c] =
                                      Finished(opened, Thrown(code))]
                     \/ \E n \in ChunkCounts :
                          tools' = [tools EXCEPT ![c] = Fetched(opened, n, title)]
  /\ UNCHANGED <<addFrame, netIssued, coll, browser>>

\* initBrowser after chromium.launch() has settled: the browser launched is
\* assigned to the browser field.
AddLaunch(c) ==
  /\ tools[c].pc = "launch"
  /\ \/ /\ tools' = [tools EXCEPT ![c] =
                       Finished(@, Thrown("InternalError"))]
        /\ UNCHANGED browser
     \/ LET id == browser.launched + 1
        IN /\ browser' = [handle |-> id, launched |-> id,
                          live |-> browser.live \cup {id},
                          pages |-> Append(browser.pages, 0)]
           /\ tools' = [tools EXCEPT ![c].pc = "newPage"]
  /\ UNCHANGED <<addFrame, netIssued, coll>>

\* this.apiClient.browser.newPage(), on the browser the field holds now.
AddNewPage(c) ==
  /\ tools[c].pc = "newPage"
  /\ \/ /\ tools' = [tools EXCEPT ![c] =
                       Finished(@, Thrown("InternalError"))]
        /\ UNCHANGED browser
     \/ /\ browser.handle \in browser.live
        /\ browser' = [browser EXCEPT !.pages[browser.handle] = @ + 1]
        /\ tools' = [tools EXCEPT ![c].pc = "render",
                                  ![c].opened = @ + 1,
                                  ![c].pageOn = browser.handle]
  /\ UNCHANGED <<addFrame, netIssued, coll>>

AfterRenderFailure_NoClose(tool) ==
  Finished(tool, Thrown("InternalError"))

\* page.goto or page.content has raised: the finally block runs.
AfterRenderFailure(tool) ==
  [tool EXCEPT !.pc = "closePage", !.rendered = FALSE]

\* page.goto, page.content and the extraction of title and main content.
AddRender(c) ==
  /\ tools[c].pc = "render"
  /\ LET tool == tools[c]
     IN \/ tools' = [tools EXCEPT ![c] = AfterRenderFailure(tool)]
        \/ \E n \in ChunkCounts, t \in Titles :
             tools' = [tools EXCEPT ![c] =
                         [tool EXCEPT !.pc = "closePage", !.rendered = TRUE,
                                      !.chunks = n,
                                      !.title = TextOr(t, SourceString(tool.args))]]
  /\ UNCHANGED <<addFrame, netIssued, coll, browser>>

\* finally { await page.close() }, then the common processing or the
\* rethrow of the rendering's error.
AddClosePage(c) ==
  /\ tools[c].pc = "closePage"
  /\ LET tool == [tools[c] EXCEPT !.closed = @ + 1]
     IN /\ browser' = [browser EXCEPT !.pages[tool.pageOn] =
                         IF @ > 0 THEN @ - 1 ELSE 0]
        /\ tools' = [tools EXCEPT ![c] =
                       IF tool.rendered
                       THEN Fetched(tool, tool.chunks, tool.title)
                       ELSE Finished(tool, Thrown("InternalError"))]
  /\ UNCHANGED <<addFrame, netIssued, coll>>

\* ApiClient.cleanup, when the process shuts down: the browser the field
\* holds is closed, and its pages with it.
Cleanup ==
  /\ client = "ok"
  /\ \A c \in DOMAIN tools : tools[c].pc \in {"idle", "done"}
  /\ \A c \in DOMAIN calls : calls[c].pc \in {"idle", "done"}
  /\ client' = "closed"
  /\ browser' = IF browser.handle = 0 THEN browser
                ELSE [browser EXCEPT !.live = @ \ {browser.handle},
                                     !.pages[browser.handle] = 0]
  /\ UNCHANGED <<env, service, netIssued, coll, calls, emb, cwd, tools,
                 chunker, docs, queue, catalog>>

BatchLen(tool) == Min(batchSize, tool.chunks - tool.i)

\* Promise.all(batch.map(...)): the embedding requests of the batch are
\* all issued before the first of them is awaited.
AddEmbed(c) ==
  /\ tools[c].pc = "embed"
  /\ netIssued' = TRUE
  /\ tools' = [tools EXCEPT ![c] =
                 [@ EXCEPT !.pc = "embedding",
                           !.embeds = @ + BatchLen(tools[c]),
                           !.inflight = BatchLen(tools[c]),
                           !.returned = 0]]
  /\ UNCHANGED <<addFrame, coll, browser>>

\* The vectors of a batch that have different lengths.
Mixed == -1

MergeLen(tool, len) ==
  IF tool.returned = 0 THEN len
  ELSE IF tool.vecLen = len THEN len ELSE Mixed

AfterReturn_First(tool) ==
  [tool EXCEPT !.pc = "upsert"]

\* Promise.all resolves when the last request of the batch has returned,
\* and the upsert is called.
AfterReturn(tool) ==
  IF tool.inflight = 0 THEN [tool EXCEPT !.pc = "upsert"] ELSE tool

\* One embedding request of the batch settles.  When it raises, Promise.all
\* rejects and the call ends, the batch's other requests still outstanding.
AddEmbedReturn(c) ==
  /\ tools[c].pc = "embedding"
  /\ LET tool == [tools[c] EXCEPT !.inflight = @ - 1]
     IN \E e \in {getEmbeddings(service, response) :
                    response \in BackendResponses} :
          tools' = [tools EXCEPT ![c] =
                      IF e.state = "raised"
                      THEN Finished(tool, Thrown("InternalError"))
                      ELSE AfterReturn(
                             [tool EXCEPT !.returned = @ + 1,
                                          !.vecLen = MergeLen(tools[c], e.len)])]
  /\ UNCHANGED <<addFrame, netIssued, coll, browser>>

\* The identifiers that n calls of generatePointId return: identifiers that
\* no point in use has (used: the identifiers in use), each one in use
\* after its call.
NewPointIds(used, n) ==
  LET free == (1..(Cardinality(used) + n)) \ used
  IN [k \in 1..n |->
        CHOOSE id \in free : Cardinality({j \in free : j < id}) = k - 1]

\* crypto.randomBytes(16).toString('hex')
generatePointId(used) == NewPointIds(used, 1)[1]

PointId_FromChunk(ids, k, chunk) == chunk

\* id: this.generatePointId(), the k-th call of the batch, for the chunk at
\* position chunk.
PointId(ids, k, chunk) == ids[k]

\* The points made of the chunks from..to of the call's document.
BatchPoints(tool, from, to) ==
  LET n == to - from + 1
      ids == NewPointIds(DOMAIN coll.pts, n)
      idOf == [k \in 1..n |-> PointId(ids, k, from + k - 1)]
  IN [id \in {idOf[k] : k \in 1..n} |->
        LET k == CHOOSE j \in 1..n : idOf[j] = id
        IN DocumentChunk(tool.args, tool.title, from + k - 1)]

UpsertFailed_Continue(tool, error) ==
  IF tool.i + batchSize < tool.chunks
  THEN [tool EXCEPT !.pc = "embed", !.i = @ + batchSize]
  ELSE Finished(tool, UpsertCatch(error))

\* The catch block around upsert rethrows, and the catch block of handle
\* ends the call.
UpsertFailed(tool, error) == Finished(tool, UpsertCatch(error))

AddUpsert(c) ==
  /\ tools[c].pc = "upsert"
  /\ netIssued' = TRUE
  /\ LET tool == [tools[c] EXCEPT !.upserts = @ + 1]
     IN \/ /\ \E f \in TransientFaults :
                tools' = [tools EXCEPT ![c] = UpsertFailed(tool, f)]
           /\ UNCHANGED coll
        \/ /\ ~coll.exists
           /\ tools' = [tools EXCEPT ![c] = UpsertFailed(tool, NotFoundError)]
           /\ UNCHANGED coll
        \/ /\ coll.exists
           /\ coll.size = 0 \/ coll.size # tool.vecLen
           /\ tools' = [tools EXCEPT ![c] = UpsertFailed(tool, RawError({}))]
           /\ UNCHANGED coll
        \/ /\ coll.exists
           /\ coll.size # 0
           /\ coll.size = tool.vecLen
           /\ coll' = Upsert(coll, BatchPoints(tool, tool.i + 1,
                                               tool.i + BatchLen(tool)))
           /\ LET stored == [tool EXCEPT !.stored = @ + 1, !.i = @ + batchSize]
              IN tools' = [tools EXCEPT ![c] =
                             IF tool.i + batchSize < tool.chunks
                             THEN [stored EXCEPT !.pc = "embed"]
                             ELSE Finished(stored, Success)]
  /\ UNCHANGED <<addFrame, browser>>

(***************************************************************************)
(* The source catalog: groupSourcesByDomainAndSubdomain and                *)
(* formatGroupedSources.  A source is a title and a url; a url is a source *)
(* string whose text after the scheme is a sequence of symbols ("/", ".",  *)
(* and names without a '/' such as "a.com" or "docs").  A key of an object *)
(* is a sequence of symbols.  grouped is the object built by the grouping, *)
(* as the sequence of its own properties in insertion order, each with the *)
(* sequence of its own properties; a property that an object does not own  *)
(* is looked up in Object.prototype.                                       *)
(***************************************************************************)
Source(title, url) == [title |-> title, url |-> url]

\* new URL(source.url) does not throw.
UrlParses(url) == IsUrl(url) /\ url.url # "malformed"

\* urlObject.hostname: the text between the scheme and the first '/'.
Hostname(url) ==
  LET segs == SplitSlash(url.rest, <<>>)
  IN IF segs = <<>> THEN <<>> ELSE Head(segs)

\* urlObject.pathname.split('/').filter(p => p); the URL parser has removed
\* the '.' and '..' segments of the path.
PathParts(url) ==
  LET segs == SplitSlash(url.rest, <<>>)
  IN IF segs = <<>> THEN <<>> ELSE Normalize(<<>>, Tail(segs))

NotDot(seg) == seg # <<".">>

\* source.url.split('/').filter(p => p && p !== '.'); of a scheme the split
\* leaves its name as the first part.
LocalParts(url) ==
  (IF url.scheme = "" THEN <<>> ELSE << <<url.scheme>> >>)
    \o SelectSeq(SplitSlash(url.rest, <<>>), NotDot)

LOCAL_FILES_DOMAIN == <<"Local Files">>

Domain(url) == IF UrlParses(url) THEN Hostname(url) ELSE LOCAL_FILES_DOMAIN

Subdomain(url) ==
  IF UrlParses(url)
  THEN IF PathParts(url) = <<>> THEN <<"/">> ELSE PathParts(url)[1]
  ELSE IF Len(LocalParts(url)) > 1 THEN LocalParts(url)[1] ELSE <<"/">>

\* The names of the properties of Object.prototype.
ObjectPrototypeKeys ==
  { "constructor", "toString", "toLocaleString", "valueOf",
    "hasOwnProperty", "isPrototypeOf", "propertyIsEnumerable", "__proto__" }

\* The key names a property that every object inherits.
Inherited(key) == Len(key) = 1 /\ key[1] \in ObjectPrototypeKeys

\* The position of the property named key among entries, or 0.
IndexOf(key, entries) ==
  IF \E k \in 1..Len(entries) : entries[k].key = key
  THEN CHOOSE k \in 1..Len(entries) : entries[k].key = key
  ELSE 0

\* grouped[domain][subdomain].push(source), after the two objects have been
\* created where grouped[domain] or grouped[domain][subdomain] was falsy.
Push(grouped, domain, subdomain, source) ==
  LET d == IndexOf(domain, grouped)
      withDomain == IF d = 0
                    THEN Append(grouped, [key |-> domain, subs |-> <<>>])
                    ELSE grouped
      at == IF d = 0 THEN Len(withDomain) ELSE d
      subs == withDomain[at].subs
      k == IndexOf(subdomain, subs)
  IN [withDomain EXCEPT ![at].subs =
        IF k = 0
        THEN Append(subs, [key |-> subdomain, sources |-> <<source>>])
        ELSE [subs EXCEPT ![k].sources = Append(@, source)]]

\* The body of the loop for one source.  grouped[domain][subdomain] is an
\* inherited property when subdomain names one: it is truthy and has no
\* push, and the call raises a TypeError (ok = FALSE).  grouped[domain] is
\* an inherited property when domain names one: the source is pushed to an
\* array held by that inherited object, and grouped does not change.
GroupSource(grouped, source) ==
  LET domain == Domain(source.url)
      subdomain == Subdomain(source.url)
  IN IF Inherited(subdomain) THEN [ok |-> FALSE, grouped |-> grouped]
     ELSE IF Inherited(domain) THEN [ok |-> TRUE, grouped |-> grouped]
     ELSE [ok |-> TRUE,
           grouped |-> Push(grouped, domain, subdomain, source)]

RECURSIVE GroupSources(_, _, _, _)
\* The loop over sources[from..to], in this order, from the result r of the
\* sources before them (the range is taken in two halves).
GroupSources(sources, from, to, r) ==
  IF from > to \/ ~r.ok THEN r
  ELSE IF from = to THEN GroupSource(r.grouped, sources[from])
  ELSE LET mid == (from + to) \div 2
           half == GroupSources(sources, from, mid, r)
       IN IF half.ok THEN GroupSources(sources, mid + 1, to, half)
          ELSE half

groupSourcesByDomainAndSubdomain(sources) ==
  GroupSources(sources, 1, Len(sources), [ok |-> TRUE, grouped |-> <<>>])

\* The collation order of the symbols, for localeCompare.
Collation ==
  << ".", "/", "a", "a.com", "api", "b", "b.org", "constructor", "docs",
     "http://", "https://", "x", "y" >>

Rank(symbol) ==
  IF \E k \in 1..Len(Collation) : Collation[k] = symbol
  THEN CHOOSE k \in 1..Len(Collation) : Collation[k] = symbol
  ELSE Len(Collation) + 1

RECURSIVE localeCompare(_, _)
\* a.localeCompare(b): negative, zero or positive.
localeCompare(a, b) ==
  IF a = <<>> THEN (IF b = <<>> THEN 0 ELSE -1)
  ELSE IF b = <<>> THEN 1
  ELSE IF Rank(Head(a)) # Rank(Head(b)) THEN Rank(Head(a)) - Rank(Head(b))
  ELSE localeCompare(Tail(a), Tail(b))

RECURSIVE AllSources(_)
\* The sources of Object.values(subdomains), in the order of the two loops.
AllSources(subs) ==
  IF subs = <<>> THEN <<>>
  ELSE Head(subs).sources \o AllSources(Tail(subs))

\* uniqueSources after uniqueSources.set(source.url, source) for each of
\* the sources: a Map keeps its keys in the order in which they were first
\* set, each with the value set last.
UniqueSources(subs) ==
  LET all == AllSources(subs)
      firsts == {k \in 1..Len(all) :
                   \A j \in 1..(k - 1) : all[j].url # all[k].url}
      Last(url) == CHOOSE k \in 1..Len(all) :
                     /\ all[k].url = url
                     /\ \A j \in (k + 1)..Len(all) : all[j].url # url
  IN [m \in 1..Cardinality(firsts) |->
        LET first == CHOOSE k \in firsts :
                       Cardinality({j \in firsts : j < k}) = m - 1
        IN all[Last(all[first].url)]]

RECURSIVE InsertByTitle(_, _)
\* source put after the sources that do not compare greater than it.
InsertByTitle(sorted, source) ==
  IF sorted = <<>> THEN <<source>>
  ELSE IF localeCompare(Head(sorted).title, source.title) <= 0
       THEN <<Head(sorted)>> \o InsertByTitle(Tail(sorted), source)
       ELSE <<source>> \o sorted

RECURSIVE SortByTitle(_, _)
\* Array.prototype.sort with the comparator of titles (a stable sort).
SortByTitle(sources, sorted) ==
  IF sources = <<>> THEN sorted
  ELSE SortByTitle(Tail(sources), InsertByTitle(sorted, Head(sources)))

\* The lines of the output: `${d}. ${domain}`, `${d}.${n}. ${title} (${url})`
\* and the empty line.
DomainLine(d, domain) ==
  [kind |-> "domain", d |-> d, n |-> 0, domain |-> domain,
   title |-> <<>>, url |-> NoArgs]

SourceLine(d, n, source) ==
  [kind |-> "source", d |-> d, n |-> n, domain |-> <<>>,
   title |-> source.title, url |-> source.url]

BlankLine ==
  [kind |-> "blank", d |-> 0, n |-> 0, domain |-> <<>>,
   title |-> <<>>, url |-> NoArgs]

RECURSIVE formatGroupedSources(_, _, _)
\* The loop over Object.entries(grouped) from the entry at domainCounter.
formatGroupedSources(grouped, domainCounter, output) ==
  IF domainCounter > Len(grouped) THEN output
  ELSE LET entry == grouped[domainCounter]
           sortedSources ==
             SortByTitle(UniqueSources(entry.subs), <<>>)
       IN formatGroupedSources(
            grouped, domainCounter + 1,
            output \o <<DomainLine(domainCounter, entry.key)>>
                   \o [index \in 1..Len(sortedSources) |->
                         SourceLine(domainCounter, index, sortedSources[index])]
                   \o <<BlankLine>>)

\* The listing of the sources scanned, or the TypeError of the grouping.
Listing(sources) ==
  LET r == groupSourcesByDomainAndSubdomain(sources)
  IN IF r.ok
     THEN [ok |-> TRUE, output |-> formatGroupedSources(r.grouped, 1, <<>>)]
     ELSE [ok |-> FALSE, output |-> <<>>]

(***************************************************************************)
(* ListSourcesHandler.handle: initCollection, then the scroll loop.        *)
(***************************************************************************)
listFrame == <<cfgVars, emb, cwd, chunker, docs, browser, queue, catalog>>

ListStart(c) ==
  /\ client = "ok"
  /\ tools[c].pc \in {"idle", "done"}
  /\ calls[c].pc \in {"idle", "done"}
  /\ tools[c].nth < MaxCalls
  /\ tools' = [tools EXCEPT ![c] =
                 [NewTool(@, "list_sources", NoArgs) EXCEPT !.pc = "init"]]
  /\ calls' = [calls EXCEPT ![c] = BeginInit(@)]
  /\ UNCHANGED <<listFrame, netIssued, coll>>

ListAfterInit(c) ==
  /\ tools[c].pc = "init"
  /\ calls[c].pc = "done"
  /\ tools' = [tools EXCEPT ![c] =
                 IF calls[c].outcome = "ok"
                 THEN [@ EXCEPT !.pc = "scroll", !.initDone = TRUE]
                 ELSE Finished(@, ListCatch(calls[c].err))]
  /\ UNCHANGED <<listFrame, netIssued, coll, calls>>

\* scroll with limit and offset: the first limit points, in the store's
\* order, from the point named by the offset on (offset 0 is the null
\* offset: from the first point on).
Scroll(pts, limit, offset) ==
  LET from == {id \in DOMAIN pts : id >= offset}
      page == {id \in from : Cardinality({j \in from : j < id}) < limit}
  IN [k \in 1..Cardinality(page) |->
        CHOOSE id \in page : Cardinality({j \in page : j < id}) = k - 1]

\* 'url' in point.payload && 'title' in point.payload
HasSource(payload) == {"url", "title"} \subseteq payload.fields

PayloadSource(payload) == Source(payload.title, payload.url)

\* The loop over scroll.points: the sources pushed for the points of page.
PageSources(pts, page) ==
  LET kept == SelectSeq([k \in 1..Len(page) |-> pts[page[k]]], HasSource)
  IN [k \in 1..Len(kept) |-> PayloadSource(kept[k])]

ScanEnds_Full(length) == length <= pageSize

\* if (scroll.points.length < pageSize) break, after the break on an empty
\* page.
ScanEnds(length) == length = 0 \/ length < pageSize

\* The TypeError that a call of a value that is no function raises.
TypeError == RawError({})

\* handle after the scroll loop: the message for no sources, or the
\* listing; an error of the grouping goes to the catch block.
Listed(tool) ==
  IF tool.sources = <<>> THEN Finished(tool, Success)
  ELSE LET r == Listing(tool.sources)
       IN IF r.ok
          THEN Finished([tool EXCEPT !.output = r.output], Success)
          ELSE Finished(tool, ListCatch(TypeError))

\* One scroll request and the rest of the loop's body; after the last one
\* the listing.
ListScroll(c) ==
  /\ tools[c].pc = "scroll"
  /\ netIssued' = TRUE
  /\ LET tool == [tools[c] EXCEPT !.scrolls = @ + 1]
     IN \/ \E f \in TransientFaults :
             tools' = [tools EXCEPT ![c] = Finished(tool, ListCatch(f))]
        \/ /\ ~coll.exists
           /\ tools' = [tools EXCEPT ![c] =
                          Finished(tool, ListCatch(NotFoundError))]
        \/ /\ coll.exists
           /\ LET page == Scroll(coll.pts, pageSize, tool.offset)
                  scanned == [tool EXCEPT
                                !.seen = @ + Len(page),
                                !.sources = @ \o PageSources(coll.pts, page)]
              IN tools' = [tools EXCEPT ![c] =
                             IF ScanEnds(Len(page)) THEN Listed(scanned)
                             ELSE [scanned EXCEPT !.offset = page[Len(page)]]]
  /\ UNCHANGED <<listFrame, coll, calls>>

(***************************************************************************)
(* SpecIngest: add_documentation is called with any argument, and called   *)
(* again with the same argument (the idle tool call holds the argument of  *)
(* the request to come).  The documents are of one chunk.                  *)
(***************************************************************************)
Cwds == { <<>>, << <<"a">>, <<"a", "a">> >> }

IngestArgs == LocalArgs(MaxSourceLen) \cup UrlArgs \cup {NoArgs, NumberArg}

InitIngest ==
  /\ env = MakeEnv("ollama", NoModel, Undefined, Undefined)
  /\ client = "ok"
  /\ service = createFromConfig(env).service
  /\ netIssued = FALSE
  /\ coll \in {Absent, Present(768, 0)}
  /\ calls = [c \in {1} |-> IdleCall]
  /\ emb = NoEmbedding
  /\ cwd \in Cwds
  /\ \E args \in IngestArgs :
       tools = [c \in {1} |-> [IdleTool EXCEPT !.args = args]]
  /\ chunker = NoChunking
  /\ docs = Documents({1}, {<<>>})
  /\ browser = NoBrowser
  /\ queue = NoQueue
  /\ catalog = NoCatalog

\* The steps of an add_documentation call in progress.
AddStep(c) ==
  \/ AddFetch(c)
  \/ AddLaunch(c)
  \/ AddNewPage(c)
  \/ AddRender(c)
  \/ AddClosePage(c)
  \/ AddEmbed(c)
  \/ AddEmbedReturn(c)
  \/ AddUpsert(c)

NextIngest ==
  \/ AddStartFrom(1, {tools[1].args})
  \/ AddStep(1)

SpecIngest == InitIngest /\ [][NextIngest]_vars

(***************************************************************************)
(* SpecTools: add_documentation and list_sources calls, one at a time,     *)
(* against a store in any initial state.                                   *)
(***************************************************************************)
ToolArgs ==
  { StringArg("", <<"a">>, "none"), StringArg("https://", <<"a">>, "html"),
    StringArg("https://", <<"a">>, "txt"), NoArgs }

InitTools ==
  /\ InitWith({1}, TwoSizeEnvs)

NextTools ==
  \/ AddStartFrom(1, ToolArgs)
  \/ AddStep(1)
  \/ ListStart(1)
  \/ InitStep(1)
  \/ ListAfterInit(1)
  \/ ListScroll(1)

SpecTools == InitTools /\ [][NextTools]_vars

\* C4: every tool entry point runs ensureCollection before it touches the
\* store: add_documentation issues no upsert, and list_sources no scroll,
\* before initCollection has completed within the same invocation.
C4_StoreAccessAfterInit ==
  \A c \in DOMAIN tools :
    (tools[c].upserts > 0 \/ tools[c].scrolls > 0) => tools[c].initDone

LocalSource(args) == args.type = "string" /\ ~IsUrl(args)

RECURSIVE IsPrefix(_, _)
IsPrefix(a, b) ==
  \/ a = <<>>
  \/ /\ b # <<>>
     /\ Head(a) = Head(b)
     /\ IsPrefix(Tail(a), Tail(b))

\* The resolution of the source lies outside the working directory.
Outside(dir, str) == ~IsPrefix(dir, PathResolve(dir, str))

\* C9: a source that does not start with http:// or https:// and resolves
\* outside the working directory is never read, embedded or upserted, and
\* the call ends with an InvalidParams error.
C9_TraversalRejectedBeforeAccess ==
  \A c \in DOMAIN tools :
    (tools[c].kind = "add_documentation" /\ LocalSource(tools[c].args)
       /\ Outside(cwd, tools[c].args.rest)) =>
      /\ ~tools[c].fileAccess
      /\ tools[c].embeds = 0
      /\ tools[c].upserts = 0
      /\ tools[c].pc \in {"fetch", "done"}
      /\ tools[c].pc = "done" => tools[c].result = Thrown("InvalidParams")

\* The source ../a/. from /a/aa, which resolves to /a/a, has been rejected.
C9_Witness ==
  /\ cwd = << <<"a">>, <<"a", "a">> >>
  /\ tools[1].kind = "add_documentation"
  /\ tools[1].args.rest = <<".", ".", "/", "a", "/", ".">>
  /\ tools[1].pc = "done"
  /\ tools[1].result = Thrown("InvalidParams")

(***************************************************************************)
(* SpecChunk: chunkText applied to any text and any positive size.         *)
(***************************************************************************)
InitChunk ==
  /\ env = MakeEnv("ollama", NoModel, Undefined, Undefined)
  /\ client = "ok"
  /\ service = createFromConfig(env).service
  /\ netIssued = FALSE
  /\ coll = Absent
  /\ calls = [c \in {1} |-> IdleCall]
  /\ emb = NoEmbedding
  /\ cwd = <<>>
  /\ tools = [c \in {1} |-> IdleTool]
  /\ \E text \in Texts(MaxTextLen), max \in 1..MaxChunkSize :
       chunker = [pc |-> "input", text |-> text, max |-> max, chunks |-> <<>>]
  /\ docs = Documents(1..MaxChunks, PageTitles)
  /\ browser = NoBrowser
  /\ queue = NoQueue
  /\ catalog = NoCatalog

ChunkText ==
  /\ chunker.pc = "input"
  /\ chunker' = [chunker EXCEPT !.pc = "done",
                                !.chunks = chunkText(chunker.text, chunker.max)]
  /\ UNCHANGED <<cfgVars, netIssued, coll, calls, emb, cwd, tools, docs,
                 browser, queue, catalog>>

NextChunk == ChunkText

SpecChunk == InitChunk /\ [][NextChunk]_vars

RECURSIVE Tokens(_, _)
\* The whitespace-separated tokens of a text: its maximal runs of
\* characters that are not whitespace (cur is the run being read).
Tokens(str, cur) ==
  IF str = <<>>
  THEN IF cur = <<>> THEN <<>> ELSE <<cur>>
  ELSE IF IsWhitespace(Head(str))
       THEN (IF cur = <<>> THEN <<>> ELSE <<cur>>) \o Tokens(Tail(str), <<>>)
       ELSE Tokens(Tail(str), Append(cur, Head(str)))

RECURSIVE TokensOfAll(_)
\* The tokens of each chunk, one chunk after the other.
TokensOfAll(chunks) ==
  IF chunks = <<>> THEN <<>>
  ELSE Tokens(Head(chunks), <<>>) \o TokensOfAll(Tail(chunks))

\* C10: for non-empty text and maxSize > 0 no chunk boundary falls inside a
\* word (the chunks' tokens, taken chunk by chunk, are the text's tokens),
\* and the chunks rejoined with single spaces have exactly the text's
\* token sequence, and split exactly as the text splits.
C10_ChunksKeepTokens ==
  (chunker.pc = "done" /\ chunker.text # <<>>) =>
    /\ TokensOfAll(chunker.chunks) = Tokens(chunker.text, <<>>)
    /\ Tokens(JoinSpace(chunker.chunks), <<>>) = Tokens(chunker.text, <<>>)
    /\ SplitWhitespace(JoinSpace(chunker.chunks), <<>>, FALSE)
         = SplitWhitespace(chunker.text, <<>>, FALSE)

\* The text "ab\n a" has been cut, at size 2, into "ab" and "a".
C10_Witness ==
  /\ chunker.pc = "done"
  /\ chunker.text = <<"a", "b", "\n", " ", "a">>
  /\ chunker.max = 2
  /\ chunker.chunks = << <<"a", "b">>, <<"a">> >>

\* C11: chunkText returns at least one chunk for a non-empty text and no
\* chunk for the empty text, and every chunk it returns is a non-empty
\* string.
C11_ChunksNonEmpty ==
  chunker.pc = "done" =>
    /\ chunker.text # <<>> => Len(chunker.chunks) >= 1
    /\ chunker.text = <<>> => chunker.chunks = <<>>
    /\ \A k \in 1..Len(chunker.chunks) : chunker.chunks[k] # <<>>

(***************************************************************************)
(* SpecBatch: add_documentation is called with one source, and called      *)
(* again with it, up to MaxCalls times, the document behind it being of    *)
(* one chunk, of one whole batch, or of two whole batches and one chunk    *)
(* more.                                                                   *)
(***************************************************************************)
BatchDocs == {1, batchSize, 2 * batchSize + 1}

InitBatch ==
  /\ env = MakeEnv("ollama", NoModel, Undefined, Undefined)
  /\ client = "ok"
  /\ service = createFromConfig(env).service
  /\ netIssued = FALSE
  /\ coll \in {Absent, Present(768, 1)}
  /\ calls = [c \in {1} |-> IdleCall]
  /\ emb = NoEmbedding
  /\ cwd = <<>>
  /\ tools = [c \in {1} |-> [IdleTool EXCEPT !.args = StoredSource]]
  /\ chunker = NoChunking
  /\ docs \in {Documents({n}, {<<>>}) : n \in BatchDocs}
  /\ browser = NoBrowser
  /\ queue = NoQueue
  /\ catalog = NoCatalog

NextBatch ==
  \/ AddStartFrom(1, {StoredSource})
  \/ AddFetch(1)
  \/ AddEmbed(1)
  \/ AddEmbedReturn(1)
  \/ AddUpsert(1)

SpecBatch == InitBatch /\ [][NextBatch]_vars

\* Every point stored before the step is stored after it, with its payload.
PointsKept ==
  \A id \in DOMAIN coll.pts :
    id \in DOMAIN coll'.pts /\ coll'.pts[id] = coll.pts[id]

\* C12: no step of an add_documentation call, successful or failing,
\* deletes or overwrites a stored point; a call that succeeds with n
\* chunks, the first for a source or a later one, has added n points; and
\* when a batch fails, the points of the batches before it stay stored.
C12_IngestionOnlyAdds ==
  /\ [][PointsKept]_vars
  /\ [](\A c \in DOMAIN tools :
          tools[c].kind = "add_documentation" =>
            /\ coll.points = Cardinality(DOMAIN coll.pts)
            /\ tools[c].result = Success =>
                 coll.points = tools[c].before + tools[c].chunks
            /\ (tools[c].pc = "done" /\ tools[c].result # Success) =>
                 coll.points = tools[c].before + tools[c].stored * batchSize)

\* The source has been ingested a second time, each time with a document of
\* more than two batches, onto a store that held a point before.
C12_Witness ==
  /\ tools[1].nth = 2
  /\ tools[1].result = Success
  /\ tools[1].chunks > 2 * batchSize
  /\ tools[1].before = 1 + tools[1].chunks
  /\ coll.points = 1 + 2 * tools[1].chunks

\* An add_documentation call has ended after one of its batches failed:
\* an embedding request or the upsert of the batch at position i.
BatchFailed(tool) ==
  /\ tool.kind = "add_documentation"
  /\ tool.pc = "done"
  /\ tool.embeds > 0
  /\ tool.result # Success

NumBatches(n) == (n + batchSize - 1) \div batchSize

\* C13 as stated: when the embedding or the upsert of a batch fails, every
\* later batch is still embedded and upserted.
C13_LaterBatchesStillProcessed ==
  \A c \in DOMAIN tools :
    (BatchFailed(tools[c]) /\ tools[c].i + batchSize < tools[c].chunks) =>
      /\ tools[c].embeds = tools[c].chunks
      /\ tools[c].upserts >= NumBatches(tools[c].chunks) - 1

\* C13 as amended: when the embedding or the upsert of a batch fails, the
\* call ends with that failure (an McpError or a failure response) and no
\* later batch is embedded or upserted: the embedding requests issued are
\* those of the batches up to the failing one, and the upserts issued are
\* those of the batches before it and at most the failing batch's.
C13_FailureAbortsIngestion ==
  \A c \in DOMAIN tools :
    BatchFailed(tools[c]) =>
      /\ tools[c].result \in
           {FailureResponse, Thrown("InvalidRequest"), Thrown("InternalError")}
      /\ tools[c].i = tools[c].stored * batchSize
      /\ tools[c].embeds = Min(tools[c].chunks, tools[c].i + batchSize)
      /\ tools[c].upserts \in {tools[c].stored, tools[c].stored + 1}

\* The upsert of the first batch of a document of more than two batches
\* has failed, and the call has ended with the first batch embedded only.
C13_Witness ==
  /\ BatchFailed(tools[1])
  /\ tools[1].chunks > 2 * batchSize
  /\ tools[1].upserts = 1
  /\ tools[1].stored = 0
  /\ tools[1].embeds = batchSize

\* C16: within one add_documentation call the batches are processed one
\* after the other in chunk order: the embedding requests issued are those
\* of the batches stored and of the current one, a batch's upsert is issued
\* when all of its embedding requests have returned, at most batchSize
\* embedding requests are outstanding, and a call that succeeds with n
\* chunks has made ceil(n / batchSize) upserts which stored n points.
C16_BatchesInOrder ==
  \A c \in DOMAIN tools :
    LET tool == tools[c]
    IN tool.kind = "add_documentation" =>
         /\ tool.inflight <= batchSize
         /\ tool.inflight + tool.returned <= batchSize
         /\ tool.pc \in {"embed", "embedding", "upsert"} =>
              /\ tool.i = tool.stored * batchSize
              /\ tool.upserts = tool.stored
              /\ tool.embeds =
                   IF tool.pc = "embed" THEN tool.i
                   ELSE Min(tool.chunks, tool.i + batchSize)
         /\ tool.pc = "upsert" =>
              /\ tool.inflight = 0
              /\ tool.returned = BatchLen(tool)
         /\ tool.result = Success =>
              /\ tool.embeds = tool.chunks
              /\ tool.upserts = NumBatches(tool.chunks)
              /\ tool.stored = tool.upserts
              /\ coll.points = tool.before + tool.chunks

\* A call has succeeded with a document of more than two batches.
C16_Witness ==
  /\ tools[1].result = Success
  /\ tools[1].chunks > 2 * batchSize
  /\ tools[1].upserts = NumBatches(tools[1].chunks)
  /\ tools[1].upserts > 2

(***************************************************************************)
(* The processing queue: enqueue, clear and drain (run_queue), which pops  *)
(* the earliest entry, runs add_documentation on it, records the outcome   *)
(* and goes on until no entry is left.  An entry's ingestion has failed    *)
(* when its call ends otherwise than with the success response.            *)
(***************************************************************************)
MaxQueue == 3

QueueUrls ==
  { StoredSource,
    StringArg("https://", <<"a">>, "html"),
    StringArg("https://", <<"a">>, "txt"),
    StringArg("https://", <<>>, "malformed") }

InSeq(x, seq) == \E k \in 1..Len(seq) : seq[k] = x

queueFrame ==
  <<cfgVars, netIssued, coll, calls, emb, cwd, chunker, docs, browser,
    catalog>>

Enqueue(url) ==
  /\ queue.pc = "idle"
  /\ Len(queue.pending) < MaxQueue
  /\ queue' = [queue EXCEPT !.pending =
                 IF InSeq(url, @) THEN @ ELSE Append(@, url)]
  /\ UNCHANGED <<queueFrame, tools>>

ClearQueue ==
  /\ queue.pc = "idle"
  /\ queue' = [queue EXCEPT !.pending = <<>>]
  /\ UNCHANGED <<queueFrame, tools>>

DrainStart ==
  /\ client = "ok"
  /\ queue.pc = "idle"
  /\ \A c \in DOMAIN tools : tools[c].pc \in {"idle", "done"}
  /\ queue' = [queue EXCEPT
                 !.pc = IF queue.pending = <<>> THEN "done" ELSE "draining",
                 !.entries = queue.pending]
  /\ UNCHANGED <<queueFrame, tools>>

\* The earliest entry is popped and its ingestion begins.
DrainNext(c) ==
  /\ queue.pc = "draining"
  /\ ~queue.busy
  /\ queue.pending # <<>>
  /\ queue' = [queue EXCEPT !.pending = Tail(@),
                            !.current = Head(queue.pending),
                            !.busy = TRUE]
  /\ tools' = [tools EXCEPT ![c] = Started(@, Head(queue.pending))]
  /\ UNCHANGED queueFrame

Recorded(q) ==
  [q EXCEPT !.busy = FALSE,
            !.pc = IF q.pending = <<>> THEN "done" ELSE "draining"]

RecordFailure_Abort(q) ==
  [q EXCEPT !.failed = Append(@, q.current), !.busy = FALSE, !.pc = "done"]

\* The failure is recorded, the entry is dropped and the loop continues.
RecordFailure(q) ==
  Recorded([q EXCEPT !.failed = Append(@, q.current)])

RecordSuccess(q) ==
  Recorded([q EXCEPT !.processed = Append(@, q.current)])

\* The ingestion of the entry popped last has ended.
DrainRecord(c) ==
  /\ queue.busy
  /\ tools[c].pc = "done"
  /\ queue' = IF tools[c].result = Success
              THEN RecordSuccess(queue)
              ELSE RecordFailure(queue)
  /\ UNCHANGED <<queueFrame, tools>>

(***************************************************************************)
(* SpecQueue: sources are enqueued, and the queue is drained once.         *)
(***************************************************************************)
InitQueue ==
  /\ env = MakeEnv("ollama", NoModel, Undefined, Undefined)
  /\ client = "ok"
  /\ service = createFromConfig(env).service
  /\ netIssued = FALSE
  /\ coll = Present(768, 0)
  /\ calls = [c \in {1} |-> IdleCall]
  /\ emb = NoEmbedding
  /\ cwd = <<>>
  /\ tools = [c \in {1} |-> IdleTool]
  /\ chunker = NoChunking
  /\ docs = Documents({1}, PageTitles)
  /\ browser = NoBrowser
  /\ queue = NoQueue
  /\ catalog = NoCatalog

NextQueue ==
  \/ \E url \in QueueUrls : Enqueue(url)
  \/ ClearQueue
  \/ DrainStart
  \/ DrainNext(1)
  \/ AddStep(1)
  \/ DrainRecord(1)

SpecQueue == InitQueue /\ [][NextQueue]_vars

MaxSources == 3

CatalogUrls ==
  { StringArg("https://", <<"a.com", "/", "docs", "/", "x">>, "html"),
    StringArg("https://", <<"a.com", "/", "docs", "/", "y">>, "html"),
    StringArg("https://", <<"a.com", "/", "api">>, "html"),
    StringArg("https://", <<"b.org">>, "html"),
    StringArg("", <<"docs", "/", "x">>, "none"),
    StringArg("https://", <<"a.com", "/", "constructor", "/", "x">>, "html"),
    StringArg("https://", <<"constructor", "/", "x">>, "html") }

CatalogTitles == {<<"a">>, <<"b">>}

CatalogSources == {Source(t, u) : t \in CatalogTitles, u \in CatalogUrls}

InitCatalog ==
  /\ env = MakeEnv("ollama", NoModel, Undefined, Undefined)
  /\ client = "ok"
  /\ service = createFromConfig(env).service
  /\ netIssued = FALSE
  /\ coll = Absent
  /\ calls = [c \in {1} |-> IdleCall]
  /\ emb = NoEmbedding
  /\ cwd = <<>>
  /\ tools = [c \in {1} |-> IdleTool]
  /\ chunker = NoChunking
  /\ docs = Documents(1..MaxChunks, PageTitles)
  /\ browser = NoBrowser
  /\ queue = NoQueue
  /\ \E sources \in UNION {[1..k -> CatalogSources] : k \in 0..MaxSources} :
       catalog = [pc |-> "input", sources |-> sources, ok |-> TRUE,
                  output |-> <<>>]

FormatSources ==
  /\ catalog.pc = "input"
  /\ LET r == Listing(catalog.sources)
     IN catalog' = [catalog EXCEPT !.pc = "done", !.ok = r.ok,
                                   !.output = r.output]
  /\ UNCHANGED <<cfgVars, netIssued, coll, calls, emb, cwd, tools, chunker,
                 docs, browser, queue>>

NextCatalog == FormatSources

SpecCatalog == InitCatalog /\ [][NextCatalog]_vars

IsDomainLine(line) == line.kind = "domain"

\* The title that the last of the sources with this url has.
LastTitle(sources, url) ==
  LET last == CHOOSE k \in 1..Len(sources) :
                /\ sources[k].url = url
                /\ \A j \in (k + 1)..Len(sources) : sources[j].url # url
  IN sources[last].title

\* C15: for any sources the listing is rendered, with one heading per host
\* of the sources ('Local Files' for the sources that do not parse as a
\* URL), the headings numbered 1, 2, ... in the order of the output; under
\* the heading numbered d stand, before the next heading, the urls of that
\* host, each once, with the title that the last source of that url has,
\* in the order of their titles and numbered d.1, d.2, ...
C15_ListingGroupsByHost ==
  catalog.pc = "done" =>
    LET sources == catalog.sources
        output == catalog.output
        headings == SelectSeq(output, IsDomainLine)
        Under(d) == {p \in 1..Len(output) :
                       output[p].kind = "source" /\ output[p].d = d}
    IN /\ catalog.ok
       /\ {headings[d].domain : d \in 1..Len(headings)}
            = {Domain(sources[k].url) : k \in 1..Len(sources)}
       /\ \A d \in 1..Len(headings) :
            /\ headings[d].d = d
            /\ \A e \in 1..Len(headings) :
                 headings[e].domain = headings[d].domain => e = d
            /\ {output[p].url : p \in Under(d)}
                 = {sources[k].url : k \in {j \in 1..Len(sources) :
                      Domain(sources[j].url) = headings[d].domain}}
            /\ {output[p].n : p \in Under(d)} = 1..Cardinality(Under(d))
            /\ \A p, q \in Under(d) :
                 /\ output[p].url = output[q].url => p = q
                 /\ p < q =>
                      /\ output[q].n = output[p].n + 1 => q = p + 1
                      /\ output[p].n < output[q].n
                      /\ localeCompare(output[p].title, output[q].title) <= 0
            /\ \A p \in Under(d) :
                 /\ output[p].title = LastTitle(sources, output[p].url)
                 /\ \E h \in 1..(p - 1) :
                      /\ output[h] = headings[d]
                      /\ \A j \in (h + 1)..p : output[j].kind = "source"
       /\ \A p \in 1..Len(output) :
            output[p].kind = "source" => output[p].d \in 1..Len(headings)

(***************************************************************************)
(* SpecBrowser: two callers of one ApiClient call add_documentation with a *)
(* URL that is rendered in the browser, their steps interleaved, and the   *)
(* process may shut down when no call is in progress.                      *)
(***************************************************************************)
RenderedUrl == StringArg("https://", <<"a">>, "html")

InitBrowser ==
  /\ env = MakeEnv("ollama", NoModel, Undefined, Undefined)
  /\ client = "ok"
  /\ service = createFromConfig(env).service
  /\ netIssued = FALSE
  /\ coll = Present(768, 0)
  /\ calls = [c \in {1, 2} |-> IdleCall]
  /\ emb = NoEmbedding
  /\ cwd = <<>>
  /\ tools = [c \in {1, 2} |-> IdleTool]
  /\ chunker = NoChunking
  /\ docs = Documents({1}, {<<>>})
  /\ browser = NoBrowser
  /\ queue = NoQueue
  /\ catalog = NoCatalog

NextBrowser ==
  \/ \E c \in {1, 2} :
       \/ AddStartFrom(c, {RenderedUrl})
       \/ AddStep(c)
  \/ Cleanup

SpecBrowser == InitBrowser /\ [][NextBrowser]_vars

\* The calls that hold a page of the browser launched as id.
PageHolders(id) ==
  {c \in DOMAIN tools : /\ tools[c].pc \in {"render", "closePage"}
                        /\ tools[c].pageOn = id}

\* C17: a call holds one page from newPage until page.close, and has
\* closed every page it opened when fetchAndProcessUrl has returned or
\* raised, whether the rendering succeeded or failed; the open pages of
\* every browser are the pages that the calls in progress hold, so no page
\* is open when no ingestion is in progress.
C17_PageClosedOnce ==
  /\ \A c \in DOMAIN tools :
       /\ tools[c].closed <= tools[c].opened
       /\ tools[c].opened <= 1
       /\ tools[c].pc \in {"render", "closePage"} =>
            tools[c].opened = 1 /\ tools[c].closed = 0
       /\ tools[c].pc \in {"done", "embed", "embedding", "upsert"} =>
            tools[c].closed = tools[c].opened
  /\ \A id \in 1..Len(browser.pages) :
       browser.pages[id] = Cardinality(PageHolders(id))

\* A call whose rendering failed has ended with its page closed.
C17_Witness ==
  \E c \in DOMAIN tools :
    /\ tools[c].pc = "done"
    /\ tools[c].result.kind = "mcpError"
    /\ ~tools[c].rendered
    /\ tools[c].opened = 1
    /\ tools[c].closed = 1

\* C20: initBrowser launches the browser at most once, and every browser
\* launched and not closed is the one the browser field holds.
C20_BrowserLaunchedOnce ==
  /\ browser.launched <= 1
  /\ browser.live \subseteq {browser.handle}

(***************************************************************************)
(* SpecList: list_sources is called, up to MaxCalls times, on a store that *)
(* holds no point, one point, or a number of points around a multiple of   *)
(* the page size, of which none, some or all lack the url or the title.    *)
(* Under the provider of the other vector size initCollection recreates    *)
(* the collection before the scan.                                         *)
(***************************************************************************)
MaxPages == 2

ListSizes ==
  {0, 1} \cup {k * pageSize + d : k \in 1..MaxPages, d \in {-1, 0, 1}}

ListedUrls ==
  << StoredSource,
     StringArg("https://", <<"a.com", "/", "docs", "/", "x">>, "html"),
     StringArg("https://", <<"b.org">>, "html") >>

\* The payload of the stored point id; gaps tells which points lack fields.
ListedPayload(id, gaps) ==
  Payload(IF gaps = "all" THEN {}
          ELSE IF gaps = "some" /\ id % 4 = 2 THEN {"url"}
          ELSE IF gaps = "some" /\ id % 4 = 3 THEN {"title"}
          ELSE {"url", "title"},
          ListedUrls[(id % 3) + 1],
          IF id % 2 = 0 THEN <<"a">> ELSE <<"b">>,
          id)

ListStore(n, gaps) ==
  [exists |-> TRUE, size |-> 768, points |-> n,
   pts |-> [id \in 1..n |-> ListedPayload(id, gaps)]]

InitList ==
  /\ env \in TwoSizeEnvs
  /\ client = "ok"
  /\ service = createFromConfig(env).service
  /\ netIssued = FALSE
  /\ coll \in {Absent}
       \cup {ListStore(n, gaps) : n \in ListSizes,
                                  gaps \in {"none", "some", "all"}}
  /\ calls = [c \in {1} |-> IdleCall]
  /\ emb = NoEmbedding
  /\ cwd = <<>>
  /\ tools = [c \in {1} |-> IdleTool]
  /\ chunker = NoChunking
  /\ docs = Documents({1}, PageTitles)
  /\ browser = NoBrowser
  /\ queue = NoQueue
  /\ catalog = NoCatalog

NextList ==
  \/ ListStart(1)
  \/ InitStep(1)
  \/ ListAfterInit(1)
  \/ ListScroll(1)

SpecList == InitList /\ [][NextList]_vars

\* A scroll request that is not the scan's last moves the offset forward,
\* to the identifier of a stored point.
ScanAdvances ==
  \A c \in DOMAIN tools :
    (tools[c].pc = "scroll" /\ tools'[c].pc = "scroll"
       /\ tools'[c].scrolls > tools[c].scrolls) =>
      /\ tools'[c].offset > tools[c].offset
      /\ tools'[c].offset \in DOMAIN coll.pts

\* C18: the scan ends after finitely many scroll requests (each one that is
\* not the last moves the offset forward to a stored identifier, and the
\* requests are no more than the stored points allow), and when it has
\* ended without a store fault the sources are those of the stored points
\* that have both url and title: each such point has its title and url
\* among the sources and its url on a line of the listing, and a point
\* that lacks one of them has added nothing and raised nothing.
C18_ScanTerminatesComplete ==
  /\ [][ScanAdvances]_vars
  /\ [](\A c \in DOMAIN tools :
          /\ tools[c].scrolls <= coll.points \div (pageSize - 1) + 1
          /\ (tools[c].kind = "list_sources" /\ tools[c].pc = "done"
                /\ tools[c].scrolls > 0 /\ tools[c].result = Success) =>
               /\ \A id \in DOMAIN coll.pts :
                    HasSource(coll.pts[id]) =>
                      /\ \E k \in 1..Len(tools[c].sources) :
                           tools[c].sources[k] =
                             Source(coll.pts[id].title, coll.pts[id].url)
                      /\ \E p \in 1..Len(tools[c].output) :
                           /\ tools[c].output[p].kind = "source"
                           /\ tools[c].output[p].url = coll.pts[id].url
               /\ \A k \in 1..Len(tools[c].sources) :
                    \E id \in DOMAIN coll.pts :
                      /\ HasSource(coll.pts[id])
                      /\ tools[c].sources[k] =
                           Source(coll.pts[id].title, coll.pts[id].url)
               /\ tools[c].seen >= coll.points)

\* A scan of more than two full pages has ended, with points skipped.
C18_Witness ==
  /\ tools[1].pc = "done"
  /\ tools[1].result = Success
  /\ tools[1].scrolls >= 3
  /\ coll.points > 2 * pageSize
  /\ Len(tools[1].sources) > 0
  /\ \E id \in DOMAIN coll.pts : ~HasSource(coll.pts[id])

\* The call of caller c returns normally in this step.
ReturnsNormally(c) ==
  /\ calls[c].pc # "done"
  /\ calls'[c].pc = "done"
  /\ calls'[c].outcome = "ok"

\* Both calls have returned normally, and the collection exists with the
\* required vector size.
C19_BothFinished ==
  (\A c \in DOMAIN calls : calls[c].pc = "done" /\ calls[c].outcome = "ok") =>
    /\ coll.exists
    /\ \A c \in DOMAIN calls : coll.size = calls[c].required

\* C19: of two concurrent calls of initCollection under one provider, each
\* call that returns normally returns when the collection exists with the
\* required vector size, and when both have returned normally the
\* collection exists with the required vector size.
C19_ConcurrentInitLeavesCollection ==
  /\ [][\A c \in DOMAIN calls :
          ReturnsNormally(c) =>
            coll'.exists /\ coll'.size = calls'[c].required]_vars
  /\ []C19_BothFinished

====
